---- MODULE Spec2Model ----
(***************************************************************************)
(* Utill Buddy (src/utill_buddy.py): the MouseJiggler's threaded           *)
(* start/pause/stop lifecycle, the jiggle loop run by its threads, the     *)
(* ShortcutManager's binding bookkeeping and the clipboard helpers.        *)
(***************************************************************************)
EXTENDS Integers, Sequences, FiniteSets, TLC

(***************************************************************************)
(* Bounds of the model.                                                    *)
(***************************************************************************)
\* thread objects that can be alive at once (a spawn needs a free one)
MaxThreads == 2
\* intervals a MouseJiggler is constructed with: 0 .. MaxInterval seconds
MaxInterval == 1
\* width of the screen the pointer lives on: positions 0 .. ScreenW - 1
ScreenW == 2
\* QShortcut objects created over the life of a ShortcutManager
MaxShortcuts == 4

\* self.thread = None
NoThread == 0

ThreadIds == 1 .. MaxThreads
Intervals == 0 .. MaxInterval
Positions == 0 .. (ScreenW - 1)

VARIABLES
  \* ---- MouseJiggler fields
  ctor_interval,     \* the interval argument __init__ was given
  interval,          \* self.interval
  jiggle_event,      \* self.jiggle_event.is_set()
  stop_event,        \* self.stop_event.is_set()
  thread,            \* self.thread: NoThread or a thread id
  jiggle_on_start,   \* self._jiggle_on_start
  \* ---- the threads running _jiggle_loop
  tpc,               \* thread id -> position in _jiggle_loop, "dead" when not alive
  tx,                \* thread id -> the x that _move_mouse read from position()
  ti,                \* thread id -> 1-second steps slept in the current interval wait
  \* ---- the host
  mouseX,            \* pointer position
  \* ---- the thread that calls start / pause / stop (the tray menu's thread)
  cpc,               \* its position: "idle" or a line of start / pause / stop
  carg,              \* the jiggle_on_start argument of the start() in progress
  lastCall,          \* the last method called: "none", "start", "pause", "stop"
  started,           \* start() has been called at least once
  \* ---- ShortcutManager fields
  platform_system,   \* platform.system()
  action_handlers,   \* self.action_handlers: the action names that have a handler
  user_shortcuts,    \* self.user_shortcuts: action name -> sequence string
  shortcut_objects,  \* self.shortcut_objects: action name -> index into qshortcuts
  qshortcuts,        \* every QShortcut created so far: [key, handler], in creation order
  \* ---- the set_shortcut call in progress and the dialogs of the last one
  spc,               \* "idle", or "L177" once lines 153-175 have run
  s_action,          \* its action_name
  s_text,            \* the text the input dialog returned
  dlg_input,         \* QInputDialog.getText calls of the last set_shortcut
  dlg_info,          \* QMessageBox.information calls of the last set_shortcut
  dlg_warn,          \* QMessageBox.warning calls of the last set_shortcut
  init_raised,       \* the actions whose QShortcut creation raised in __init__ (line 142)
  old_user_shortcuts,   \* user_shortcuts when the set_shortcut in progress was called
  old_shortcut_objects, \* shortcut_objects when it was called
  old_qshortcuts,       \* qshortcuts when it was called
  \* ---- the clipboard and the last clipboard helper that ran
  clip_text,         \* QApplication.clipboard().text()
  clip_image,        \* QApplication.clipboard().image(): NullImage or an image
  saved_image,       \* the image in the file paste_image saved last, NullImage if none
  c_handler,         \* the helper that ran last, "none" before the first
  c_reads,           \* its clipboard reads (text() / image())
  c_writes,          \* its clipboard mutation calls (setText / setImage)
  c_write_failed,    \* the clipboard mutation raised on every attempt made
  c_dialogs,         \* its input / file dialogs
  c_loads,           \* its QImage(file_path) loads
  c_saves,           \* its image.save calls
  c_info,            \* its QMessageBox.information calls
  c_warn,            \* its QMessageBox.warning calls
  c_raised,          \* it ended by an exception that nothing caught
  \* ---- the tray icon, the Qt application and the quit_app call
  icon_running,      \* the pystray icon runs: icon.stop() has not been called
  app_quit,          \* QApplication.quit() has been called
  qpc,               \* position in quit_app: "idle", "L293", "L294", "L295", "done"
  q_given            \* quit_app was given a jiggler instance

jvars == <<ctor_interval, interval, jiggle_event, stop_event, thread, jiggle_on_start,
           tpc, tx, ti, mouseX, cpc, carg, lastCall, started>>

svars == <<platform_system, action_handlers, user_shortcuts, shortcut_objects,
           qshortcuts, spc, s_action, s_text, dlg_input, dlg_info, dlg_warn,
           init_raised, old_user_shortcuts, old_shortcut_objects, old_qshortcuts>>

cvars == <<clip_text, clip_image, saved_image, c_handler, c_reads, c_writes, c_write_failed,
           c_dialogs, c_loads, c_saves, c_info, c_warn, c_raised>>

qvars == <<icon_running, app_quit, qpc, q_given>>

vars == <<jvars, svars, cvars, qvars>>

Min(a, b) == IF a <= b THEN a ELSE b

\* threading.Thread.is_alive()
is_alive(t) == tpc[t] # "dead"

\* thread t is inside a call that takes time: a pyautogui call or time.sleep(1)
Blocked(t) == tpc[t] \in {"L38", "L39", "L40", "L60"}

AliveThreads == {t \in ThreadIds : is_alive(t)}

\* the thread object a new threading.Thread(...) gets: the lowest one not alive
FreshThread == CHOOSE t \in ThreadIds \ AliveThreads :
                 \A u \in ThreadIds \ AliveThreads : t <= u

\* a mutant of MouseJigglerInit: the argument is ignored and the jiggle event
\* starts set
MouseJigglerInit_Mutant(iv) ==
  /\ interval = 0
  /\ jiggle_event = TRUE
  /\ stop_event = FALSE
  /\ thread = NoThread
  /\ jiggle_on_start = FALSE

\* MouseJiggler.__init__(interval)
MouseJigglerInit(iv) ==
  /\ interval = iv
  /\ jiggle_event = FALSE
  /\ stop_event = FALSE
  /\ thread = NoThread
  /\ jiggle_on_start = FALSE

\* main(): the jiggler is constructed with interval iv and not started; no thread
\* exists and the pointer is at x
JigglerLaunched(iv, x) ==
  /\ ctor_interval = iv
  /\ MouseJigglerInit(ctor_interval)
  /\ tpc = [t \in ThreadIds |-> "dead"]
  /\ tx = [t \in ThreadIds |-> 0]
  /\ ti = [t \in ThreadIds |-> 0]
  /\ mouseX = x
  /\ cpc = "idle"
  /\ carg = FALSE
  /\ lastCall = "none"
  /\ started = FALSE

(***************************************************************************)
(* _jiggle_loop, one action per statement that reads or writes shared      *)
(* state, for thread t.                                                    *)
(***************************************************************************)
ThreadFrame ==
  UNCHANGED <<ctor_interval, interval, thread, cpc, carg, lastCall, started,
              svars, cvars, qvars>>

\* line 47: if self._jiggle_on_start
Loop_L47(t) ==
  /\ tpc[t] = "L47"
  /\ tpc' = [tpc EXCEPT ![t] = IF jiggle_on_start THEN "L48" ELSE "L51"]
  /\ UNCHANGED <<jiggle_event, stop_event, jiggle_on_start, tx, ti, mouseX>>
  /\ ThreadFrame

\* line 48: self.jiggle_event.set()
Loop_L48(t) ==
  /\ tpc[t] = "L48"
  /\ jiggle_event' = TRUE
  /\ tpc' = [tpc EXCEPT ![t] = "L49"]
  /\ UNCHANGED <<stop_event, jiggle_on_start, tx, ti, mouseX>>
  /\ ThreadFrame

\* line 49: self._jiggle_on_start = False
Loop_L49(t) ==
  /\ tpc[t] = "L49"
  /\ jiggle_on_start' = FALSE
  /\ tpc' = [tpc EXCEPT ![t] = "L51"]
  /\ UNCHANGED <<jiggle_event, stop_event, tx, ti, mouseX>>
  /\ ThreadFrame

\* a mutant of Loop_L51: the loop condition is always true
Loop_L51_IgnoresStop(t) ==
  /\ tpc[t] = "L51"
  /\ tpc' = [tpc EXCEPT ![t] = "L52"]
  /\ UNCHANGED <<jiggle_event, stop_event, jiggle_on_start, tx, ti, mouseX>>
  /\ ThreadFrame

\* line 51: while not self.stop_event.is_set(); the thread ends when it is set
Loop_L51(t) ==
  /\ tpc[t] = "L51"
  /\ tpc' = [tpc EXCEPT ![t] = IF stop_event THEN "dead" ELSE "L52"]
  /\ UNCHANGED <<jiggle_event, stop_event, jiggle_on_start, tx, ti, mouseX>>
  /\ ThreadFrame

\* line 52: if self.jiggle_event.is_set(): self._move_mouse()
Loop_L52(t) ==
  /\ tpc[t] = "L52"
  /\ tpc' = [tpc EXCEPT ![t] = IF jiggle_event THEN "L38" ELSE "L57"]
  /\ UNCHANGED <<jiggle_event, stop_event, jiggle_on_start, tx, ti, mouseX>>
  /\ ThreadFrame

\* line 38: x, y = pyautogui.position(). The call returns (ok) or raises; a raise
\* is caught by the handler of line 41
Move_L38(t) ==
  /\ tpc[t] = "L38"
  /\ \E ok \in BOOLEAN :
     IF ok
       THEN /\ tx' = [tx EXCEPT ![t] = mouseX]
            /\ tpc' = [tpc EXCEPT ![t] = "L39"]
       ELSE /\ tx' = tx
            /\ tpc' = [tpc EXCEPT ![t] = "L43"]
  /\ UNCHANGED <<jiggle_event, stop_event, jiggle_on_start, ti, mouseX>>
  /\ ThreadFrame

\* line 39: pyautogui.moveTo(x + 1, y); the pointer stays on the screen. A raise
\* is caught by the handler of line 41
Move_L39(t) ==
  /\ tpc[t] = "L39"
  /\ \E ok \in BOOLEAN :
     IF ok
       THEN /\ mouseX' = Min(tx[t] + 1, ScreenW - 1)
            /\ tpc' = [tpc EXCEPT ![t] = "L40"]
            /\ tx' = tx
       ELSE /\ mouseX' = mouseX
            /\ tpc' = [tpc EXCEPT ![t] = "L43"]
            /\ tx' = [tx EXCEPT ![t] = 0]
  /\ UNCHANGED <<jiggle_event, stop_event, jiggle_on_start, ti>>
  /\ ThreadFrame

\* line 40: pyautogui.moveTo(x, y), then _move_mouse returns to the loop's wait.
\* A raise is caught by the handler of line 41 and leaves the pointer where it is
Move_L40(t) ==
  /\ tpc[t] = "L40"
  /\ \E ok \in BOOLEAN :
     IF ok
       THEN /\ mouseX' = tx[t]
            /\ tpc' = [tpc EXCEPT ![t] = "L57"]
       ELSE /\ mouseX' = mouseX
            /\ tpc' = [tpc EXCEPT ![t] = "L43"]
  /\ tx' = [tx EXCEPT ![t] = 0]
  /\ UNCHANGED <<jiggle_event, stop_event, jiggle_on_start, ti>>
  /\ ThreadFrame

\* a mutant of Move_L43: the exception ends the thread
Move_L43_Dies(t) ==
  /\ tpc[t] = "L43"
  /\ tpc' = [tpc EXCEPT ![t] = "dead"]
  /\ UNCHANGED <<jiggle_event, stop_event, jiggle_on_start, tx, ti, mouseX>>
  /\ ThreadFrame

\* lines 41-43: except Exception as e: print(...); _move_mouse returns to the
\* loop's wait
Move_L43(t) ==
  /\ tpc[t] = "L43"
  /\ tpc' = [tpc EXCEPT ![t] = "L57"]
  /\ UNCHANGED <<jiggle_event, stop_event, jiggle_on_start, tx, ti, mouseX>>
  /\ ThreadFrame

\* lines 57-59, first iteration: for _ in range(self.interval):
\* if self.stop_event.is_set(): break
Loop_L57(t) ==
  /\ tpc[t] = "L57"
  /\ tpc' = [tpc EXCEPT ![t] = IF 0 < interval /\ ~stop_event THEN "L60" ELSE "L51"]
  /\ UNCHANGED <<jiggle_event, stop_event, jiggle_on_start, tx, ti, mouseX>>
  /\ ThreadFrame

\* a mutant of Loop_L60: the wait never counts its steps, so it never ends
Loop_L60_NoCount(t) ==
  /\ tpc[t] = "L60"
  /\ IF ~stop_event
       THEN UNCHANGED <<tpc, ti>>
       ELSE /\ tpc' = [tpc EXCEPT ![t] = "L51"]
            /\ ti' = [ti EXCEPT ![t] = 0]
  /\ UNCHANGED <<jiggle_event, stop_event, jiggle_on_start, tx, mouseX>>
  /\ ThreadFrame

\* line 60, then lines 57-59 again: time.sleep(1) returns, and the next iteration
\* starts (if any, and unless stop_event is set) or the wait ends
Loop_L60(t) ==
  /\ tpc[t] = "L60"
  /\ IF ti[t] + 1 < interval /\ ~stop_event
       THEN /\ tpc' = tpc
            /\ ti' = [ti EXCEPT ![t] = ti[t] + 1]
       ELSE /\ tpc' = [tpc EXCEPT ![t] = "L51"]
            /\ ti' = [ti EXCEPT ![t] = 0]
  /\ UNCHANGED <<jiggle_event, stop_event, jiggle_on_start, tx, mouseX>>
  /\ ThreadFrame

\* one step of thread t in _jiggle_loop
ThreadStep(t) ==
  \/ Loop_L47(t) \/ Loop_L48(t) \/ Loop_L49(t) \/ Loop_L51(t) \/ Loop_L52(t)
  \/ Move_L38(t) \/ Move_L39(t) \/ Move_L40(t) \/ Move_L43(t)
  \/ Loop_L57(t) \/ Loop_L60(t)

(***************************************************************************)
(* start / pause / stop, called one at a time from the tray menu's thread. *)
(***************************************************************************)
CallerFrame ==
  UNCHANGED <<ctor_interval, interval, tx, ti, mouseX, svars, cvars, qvars>>

\* the tray menu (or a test) calls start(jiggle_on_start)
CallStart(jos) ==
  /\ cpc = "idle"
  /\ cpc' = "S71"
  /\ carg' = jos
  /\ lastCall' = "start"
  /\ started' = TRUE
  /\ UNCHANGED <<jiggle_event, stop_event, thread, jiggle_on_start, tpc>>
  /\ CallerFrame

\* line 71: self.jiggle_event.set()
Start_L71 ==
  /\ cpc = "S71"
  /\ jiggle_event' = TRUE
  /\ cpc' = "S72"
  /\ UNCHANGED <<stop_event, thread, jiggle_on_start, tpc, carg, lastCall, started>>
  /\ CallerFrame

\* line 72: if self.thread is None or not self.thread.is_alive(); else return
Start_L72 ==
  /\ cpc = "S72"
  /\ IF thread = NoThread \/ ~is_alive(thread)
       THEN cpc' = "S73" /\ carg' = carg
       ELSE cpc' = "idle" /\ carg' = FALSE
  /\ UNCHANGED <<jiggle_event, stop_event, thread, jiggle_on_start, tpc,
                 lastCall, started>>
  /\ CallerFrame

\* a mutant of Start_L73: the stop event is not cleared before the new thread starts
Start_L73_NoClear ==
  /\ cpc = "S73"
  /\ cpc' = "S74"
  /\ UNCHANGED <<jiggle_event, stop_event, thread, jiggle_on_start, tpc, carg,
                 lastCall, started>>
  /\ CallerFrame

\* line 73: self.stop_event.clear()
Start_L73 ==
  /\ cpc = "S73"
  /\ stop_event' = FALSE
  /\ cpc' = "S74"
  /\ UNCHANGED <<jiggle_event, thread, jiggle_on_start, tpc, carg, lastCall, started>>
  /\ CallerFrame

\* line 74: self._jiggle_on_start = jiggle_on_start
Start_L74 ==
  /\ cpc = "S74"
  /\ jiggle_on_start' = carg
  /\ cpc' = "S75"
  /\ UNCHANGED <<jiggle_event, stop_event, thread, tpc, carg, lastCall, started>>
  /\ CallerFrame

\* lines 75-76: self.thread = threading.Thread(...); self.thread.start(); return
Start_L75 ==
  /\ cpc = "S75"
  /\ AliveThreads # ThreadIds
  /\ thread' = FreshThread
  /\ tpc' = [tpc EXCEPT ![FreshThread] = "L47"]
  /\ cpc' = "idle"
  /\ carg' = FALSE
  /\ UNCHANGED <<jiggle_event, stop_event, jiggle_on_start, lastCall, started>>
  /\ CallerFrame

\* the tray menu (or a test) calls pause()
CallPause ==
  /\ cpc = "idle"
  /\ cpc' = "P80"
  /\ lastCall' = "pause"
  /\ UNCHANGED <<jiggle_event, stop_event, thread, jiggle_on_start, tpc, carg, started>>
  /\ CallerFrame

\* a mutant of Pause_L80: pause() also sets the stop event, as stop() does
Pause_L80_AlsoStops ==
  /\ cpc = "P80"
  /\ jiggle_event' = FALSE
  /\ stop_event' = TRUE
  /\ cpc' = "idle"
  /\ UNCHANGED <<thread, jiggle_on_start, tpc, carg, lastCall, started>>
  /\ CallerFrame

\* line 80: self.jiggle_event.clear(); return
Pause_L80 ==
  /\ cpc = "P80"
  /\ jiggle_event' = FALSE
  /\ cpc' = "idle"
  /\ UNCHANGED <<stop_event, thread, jiggle_on_start, tpc, carg, lastCall, started>>
  /\ CallerFrame

\* quit_app (or a test) calls stop()
CallStop ==
  /\ cpc = "idle"
  /\ cpc' = "T84"
  /\ lastCall' = "stop"
  /\ UNCHANGED <<jiggle_event, stop_event, thread, jiggle_on_start, tpc, carg, started>>
  /\ CallerFrame

\* line 84: self.jiggle_event.clear()
Stop_L84 ==
  /\ cpc = "T84"
  /\ jiggle_event' = FALSE
  /\ cpc' = "T85"
  /\ UNCHANGED <<stop_event, thread, jiggle_on_start, tpc, carg, lastCall, started>>
  /\ CallerFrame

\* line 85: self.stop_event.set()
Stop_L85 ==
  /\ cpc = "T85"
  /\ stop_event' = TRUE
  /\ cpc' = "T86"
  /\ UNCHANGED <<jiggle_event, thread, jiggle_on_start, tpc, carg, lastCall, started>>
  /\ CallerFrame

\* line 86: if self.thread and self.thread.is_alive()
Stop_L86 ==
  /\ cpc = "T86"
  /\ cpc' = IF thread # NoThread /\ is_alive(thread) THEN "T88" ELSE "T89"
  /\ UNCHANGED <<jiggle_event, stop_event, thread, jiggle_on_start, tpc, carg,
                 lastCall, started>>
  /\ CallerFrame

\* line 88: self.thread.join(timeout=self.interval + 2) returns: the thread ended
Stop_L88_Joined ==
  /\ cpc = "T88"
  /\ ~is_alive(thread)
  /\ cpc' = "T89"
  /\ UNCHANGED <<jiggle_event, stop_event, thread, jiggle_on_start, tpc, carg,
                 lastCall, started>>
  /\ CallerFrame

\* line 88: the join times out (after interval + 2 seconds) with the thread still
\* alive, inside a library call of _move_mouse or a sleep
Stop_L88_Timeout ==
  /\ cpc = "T88"
  /\ Blocked(thread)
  /\ cpc' = "T89"
  /\ UNCHANGED <<jiggle_event, stop_event, thread, jiggle_on_start, tpc, carg,
                 lastCall, started>>
  /\ CallerFrame

\* line 89: self.thread = None; return
Stop_L89 ==
  /\ cpc = "T89"
  /\ thread' = NoThread
  /\ cpc' = "idle"
  /\ UNCHANGED <<jiggle_event, stop_event, jiggle_on_start, tpc, carg, lastCall, started>>
  /\ CallerFrame

(***************************************************************************)
(* ShortcutManager.                                                        *)
(***************************************************************************)
\* the keys of shortcut_action_triggers in main()
Actions == {"copy", "paste", "cut", "copy_image", "paste_image"}

\* the action names set_shortcut is called with: the five the tray menu emits
\* and one that has no handler
ActionNames == Actions \cup {"bad_action"}

\* the keys of self.default_shortcuts, in the order the dict holds them
DefaultOrder == <<"copy", "paste", "cut">>

\* self.default_shortcuts on the platform sys
default_shortcuts(sys) ==
  [a \in {"copy", "paste", "cut"} |->
     CASE a = "copy"  -> IF sys = "Darwin" THEN "Meta+C" ELSE "Ctrl+C"
       [] a = "paste" -> IF sys = "Darwin" THEN "Meta+V" ELSE "Ctrl+V"
       [] a = "cut"   -> IF sys = "Darwin" THEN "Meta+X" ELSE "Ctrl+X"]

\* the texts the input dialog of set_shortcut returns
DialogTexts == {"", "Alt+F1", "alt+f1", "Not A Key"}

\* an empty QKeySequence: QKeySequence()
EmptyKey == "<empty>"

\* QKeySequence(sequence_str): the key sequence a string parses to, written in
\* its portable form; a string that names no key parses to the empty sequence
QKeySequence(str) ==
  CASE str \in {"Ctrl+C", "Ctrl+V", "Ctrl+X", "Meta+C", "Meta+V", "Meta+X", "Alt+F1"}
         -> str
    [] str = "alt+f1" -> "Alt+F1"
    [] OTHER -> EmptyKey

\* a mutant of isEmpty: no key sequence counts as empty
isEmpty_Never(q) == FALSE

\* QKeySequence.isEmpty()
isEmpty(q) == q = EmptyKey

\* a handler nobody is connected to
NoHandler == "<none>"

\* a mutant of DictSet: the entry is not stored
DictSet_Dropped(d, k, v) == d

\* d[k] = v added to (or replaced in) the dict d
DictSet(d, k, v) == [x \in DOMAIN d \cup {k} |-> IF x = k THEN v ELSE d[x]]

\* a mutant of DictDel: the entry stays
DictDel_Kept(d, k) == d

\* del d[k] / d.pop(k, None)
DictDel(d, k) == [x \in DOMAIN d \ {k} |-> d[x]]

\* the empty dict
EmptyDict == [x \in {} |-> ""]

\* _initialize_shortcuts from the k-th entry of user_shortcuts on: `acc` holds the
\* QShortcut objects created so far and the shortcut_objects table; `raising` are
\* the actions whose QShortcut creation raises (caught and printed, line 142)
RECURSIVE initialize_shortcuts(_, _, _, _, _)
initialize_shortcuts(k, handlers, user, raising, acc) ==
  IF k > Len(DefaultOrder)
    THEN acc
    ELSE LET action_name == DefaultOrder[k]
             q_sequence == QKeySequence(user[action_name])
         IN  IF /\ action_name \in handlers
                /\ ~isEmpty(q_sequence)
                /\ action_name \notin raising
               THEN initialize_shortcuts(k + 1, handlers, user, raising,
                      [objs |-> Append(acc.objs,
                                       [key |-> q_sequence, handler |-> action_name]),
                       table |-> DictSet(acc.table, action_name, Len(acc.objs) + 1)])
               ELSE initialize_shortcuts(k + 1, handlers, user, raising, acc)

\* a mutant of ShortcutManagerInit: line 122 is skipped
ShortcutManagerInit_NoShortcuts(sys, handlers, raising) ==
  LET made == [objs |-> <<>>, table |-> EmptyDict]
  IN  /\ platform_system = sys
      /\ action_handlers = handlers
      /\ user_shortcuts = default_shortcuts(sys)
      /\ qshortcuts = made.objs
      /\ shortcut_objects = made.table
      /\ spc = "idle"
      /\ s_action = "copy"
      /\ s_text = ""
      /\ dlg_input = 0
      /\ dlg_info = 0
      /\ dlg_warn = 0
      /\ init_raised = raising \cap handlers \cap DOMAIN default_shortcuts(sys)
      /\ old_user_shortcuts = EmptyDict
      /\ old_shortcut_objects = EmptyDict
      /\ old_qshortcuts = <<>>

\* ShortcutManager.__init__(app, action_handlers) on the platform sys
ShortcutManagerInit(sys, handlers, raising) ==
  LET made == initialize_shortcuts(1, handlers, default_shortcuts(sys), raising,
                                   [objs |-> <<>>, table |-> EmptyDict])
  IN  /\ platform_system = sys
      /\ action_handlers = handlers
      /\ user_shortcuts = default_shortcuts(sys)
      /\ qshortcuts = made.objs
      /\ shortcut_objects = made.table
      /\ spc = "idle"
      /\ s_action = "copy"
      /\ s_text = ""
      /\ dlg_input = 0
      /\ dlg_info = 0
      /\ dlg_warn = 0
      /\ init_raised = raising \cap handlers \cap DOMAIN default_shortcuts(sys)
      /\ old_user_shortcuts = EmptyDict
      /\ old_shortcut_objects = EmptyDict
      /\ old_qshortcuts = <<>>

\* the QShortcut objects that are bound to action a: a non-empty key and a
\* connection to a's handler
LiveBindings(a) ==
  {i \in 1 .. Len(qshortcuts) :
     ~isEmpty(qshortcuts[i].key) /\ qshortcuts[i].handler = a}

\* a mutant of Deactivated: the old QShortcut keeps its key and its connection
Deactivated_Kept(objs, i) == objs

\* lines 169-171: activated.disconnect() and setKey(QKeySequence()) on object i
Deactivated(objs, i) ==
  [objs EXCEPT ![i] = [key |-> EmptyKey, handler |-> NoHandler]]

ShortcutFrame ==
  UNCHANGED <<jvars, cvars, qvars, platform_system, action_handlers, init_raised>>

\* no set_shortcut call is in progress
NoCallInProgress ==
  /\ old_user_shortcuts' = EmptyDict
  /\ old_shortcut_objects' = EmptyDict
  /\ old_qshortcuts' = <<>>

\* a mutant of SetShortcut_L153: a cancelled dialog still pops the stored sequence
SetShortcut_L153_CancelPops(action_name, text, ok) ==
  /\ spc = "idle"
  /\ IF action_name \notin action_handlers
       THEN /\ dlg_input' = 0
            /\ dlg_info' = 0
            /\ dlg_warn' = 1
            /\ UNCHANGED <<user_shortcuts, shortcut_objects, qshortcuts, spc,
                           s_action, s_text>>
            /\ NoCallInProgress
       ELSE /\ dlg_input' = 1
            /\ dlg_info' = 0
            /\ dlg_warn' = 0
            /\ IF ~ok
                 THEN /\ user_shortcuts' = DictDel(user_shortcuts, action_name)
                      /\ UNCHANGED <<shortcut_objects, qshortcuts, spc, s_action,
                                     s_text>>
                      /\ NoCallInProgress
                 ELSE /\ isEmpty(QKeySequence(text)) \/ Len(qshortcuts) < MaxShortcuts
                      /\ IF action_name \in DOMAIN shortcut_objects
                           THEN /\ qshortcuts' =
                                     Deactivated(qshortcuts, shortcut_objects[action_name])
                                /\ shortcut_objects' = DictDel(shortcut_objects, action_name)
                           ELSE UNCHANGED <<qshortcuts, shortcut_objects>>
                      /\ user_shortcuts' = DictDel(user_shortcuts, action_name)
                      /\ spc' = "L177"
                      /\ s_action' = action_name
                      /\ s_text' = text
                      /\ old_user_shortcuts' = user_shortcuts
                      /\ old_shortcut_objects' = shortcut_objects
                      /\ old_qshortcuts' = qshortcuts
  /\ ShortcutFrame

\* a mutant of SetShortcut_L153: the input dialog opens for an unknown action too
SetShortcut_L153_AsksAnyway(action_name, text, ok) ==
  /\ spc = "idle"
  /\ IF action_name \notin action_handlers
       THEN /\ dlg_input' = 1
            /\ dlg_info' = 0
            /\ dlg_warn' = 1
            /\ UNCHANGED <<user_shortcuts, shortcut_objects, qshortcuts, spc,
                           s_action, s_text>>
            /\ NoCallInProgress
       ELSE /\ dlg_input' = 1
            /\ dlg_info' = 0
            /\ dlg_warn' = 0
            /\ IF ~ok
                 THEN /\ UNCHANGED <<user_shortcuts, shortcut_objects, qshortcuts,
                                       spc, s_action, s_text>>
                      /\ NoCallInProgress
                 ELSE /\ isEmpty(QKeySequence(text)) \/ Len(qshortcuts) < MaxShortcuts
                      /\ IF action_name \in DOMAIN shortcut_objects
                           THEN /\ qshortcuts' =
                                     Deactivated(qshortcuts, shortcut_objects[action_name])
                                /\ shortcut_objects' = DictDel(shortcut_objects, action_name)
                           ELSE UNCHANGED <<qshortcuts, shortcut_objects>>
                      /\ user_shortcuts' = DictDel(user_shortcuts, action_name)
                      /\ spc' = "L177"
                      /\ s_action' = action_name
                      /\ s_text' = text
                      /\ old_user_shortcuts' = user_shortcuts
                      /\ old_shortcut_objects' = shortcut_objects
                      /\ old_qshortcuts' = qshortcuts
  /\ ShortcutFrame

\* set_shortcut(action_name), lines 153-175: the handler check, the input dialog
\* (it returns text and ok) and, when the user confirmed, the removal of the old
\* QShortcut and of the stored sequence
SetShortcut_L153(action_name, text, ok) ==
  /\ spc = "idle"
  /\ IF action_name \notin action_handlers
       THEN /\ dlg_input' = 0
            /\ dlg_info' = 0
            /\ dlg_warn' = 1
            /\ UNCHANGED <<user_shortcuts, shortcut_objects, qshortcuts, spc,
                           s_action, s_text>>
            /\ NoCallInProgress
       ELSE /\ dlg_input' = 1
            /\ dlg_info' = 0
            /\ dlg_warn' = 0
            /\ IF ~ok
                 THEN /\ UNCHANGED <<user_shortcuts, shortcut_objects, qshortcuts,
                                       spc, s_action, s_text>>
                      /\ NoCallInProgress
                 ELSE /\ isEmpty(QKeySequence(text)) \/ Len(qshortcuts) < MaxShortcuts
                      /\ IF action_name \in DOMAIN shortcut_objects
                           THEN /\ qshortcuts' =
                                     Deactivated(qshortcuts, shortcut_objects[action_name])
                                /\ shortcut_objects' = DictDel(shortcut_objects, action_name)
                           ELSE UNCHANGED <<qshortcuts, shortcut_objects>>
                      /\ user_shortcuts' = DictDel(user_shortcuts, action_name)
                      /\ spc' = "L177"
                      /\ s_action' = action_name
                      /\ s_text' = text
                      /\ old_user_shortcuts' = user_shortcuts
                      /\ old_shortcut_objects' = shortcut_objects
                      /\ old_qshortcuts' = qshortcuts
  /\ ShortcutFrame

\* a mutant of SetShortcut_L177: line 194 is skipped, the string is not stored
SetShortcut_L177_NotStored(exc) ==
  /\ spc = "L177"
  /\ IF s_text = ""
       THEN /\ dlg_info' = dlg_info + 1
            /\ UNCHANGED <<dlg_warn, user_shortcuts, shortcut_objects, qshortcuts>>
       ELSE IF isEmpty(QKeySequence(s_text))
         THEN /\ dlg_warn' = dlg_warn + 1
              /\ UNCHANGED <<dlg_info, user_shortcuts, shortcut_objects, qshortcuts>>
         ELSE CASE exc = "QShortcut" ->
                     /\ dlg_warn' = dlg_warn + 1
                     /\ UNCHANGED <<dlg_info, user_shortcuts, shortcut_objects,
                                    qshortcuts>>
                [] exc = "connect" ->
                     /\ qshortcuts' = Append(qshortcuts,
                          [key |-> QKeySequence(s_text), handler |-> NoHandler])
                     /\ dlg_warn' = dlg_warn + 1
                     /\ UNCHANGED <<dlg_info, user_shortcuts, shortcut_objects>>
                [] OTHER ->
                     /\ qshortcuts' = Append(qshortcuts,
                          [key |-> QKeySequence(s_text), handler |-> s_action])
                     /\ shortcut_objects' =
                          DictSet(shortcut_objects, s_action, Len(qshortcuts) + 1)
                     /\ user_shortcuts' = user_shortcuts
                     /\ dlg_info' = dlg_info + 1
                     /\ UNCHANGED dlg_warn
  /\ spc' = "idle"
  /\ s_action' = "copy"
  /\ s_text' = ""
  /\ NoCallInProgress
  /\ UNCHANGED dlg_input
  /\ ShortcutFrame

\* set_shortcut, lines 177-200: clear, reject or create. exc says where the
\* creation raises: "none", "QShortcut" (line 191) or "connect" (line 192)
SetShortcut_L177(exc) ==
  /\ spc = "L177"
  /\ IF s_text = ""
       THEN /\ dlg_info' = dlg_info + 1
            /\ UNCHANGED <<dlg_warn, user_shortcuts, shortcut_objects, qshortcuts>>
       ELSE IF isEmpty(QKeySequence(s_text))
         THEN /\ dlg_warn' = dlg_warn + 1
              /\ UNCHANGED <<dlg_info, user_shortcuts, shortcut_objects, qshortcuts>>
         ELSE CASE exc = "QShortcut" ->
                     /\ dlg_warn' = dlg_warn + 1
                     /\ UNCHANGED <<dlg_info, user_shortcuts, shortcut_objects,
                                    qshortcuts>>
                [] exc = "connect" ->
                     /\ qshortcuts' = Append(qshortcuts,
                          [key |-> QKeySequence(s_text), handler |-> NoHandler])
                     /\ dlg_warn' = dlg_warn + 1
                     /\ UNCHANGED <<dlg_info, user_shortcuts, shortcut_objects>>
                [] OTHER ->
                     /\ qshortcuts' = Append(qshortcuts,
                          [key |-> QKeySequence(s_text), handler |-> s_action])
                     /\ shortcut_objects' =
                          DictSet(shortcut_objects, s_action, Len(qshortcuts) + 1)
                     /\ user_shortcuts' = DictSet(user_shortcuts, s_action, s_text)
                     /\ dlg_info' = dlg_info + 1
                     /\ UNCHANGED dlg_warn
  /\ spc' = "idle"
  /\ s_action' = "copy"
  /\ s_text' = ""
  /\ NoCallInProgress
  /\ UNCHANGED dlg_input
  /\ ShortcutFrame

(***************************************************************************)
(* The clipboard helpers, one action per helper.                           *)
(***************************************************************************)
\* a null QImage
NullImage == "<null>"

\* texts a user types or another program copies
Texts == {"", "abc", "xyz"}

\* paths the file dialogs return; "" when the user cancels
OpenPaths == {"", "a.png", "b.png", "notes.txt"}
SavePaths == {"", "out.png"}

\* QImage(file_path): the file's image, null when the file is no image
QImage(file_path) ==
  CASE file_path = "a.png" -> "imgA"
    [] file_path = "b.png" -> "imgB"
    [] OTHER -> NullImage

ClipboardLaunched(text, image) ==
  /\ clip_text = text
  /\ clip_image = image
  /\ saved_image = NullImage
  /\ c_handler = "none"
  /\ c_reads = 0
  /\ c_writes = 0
  /\ c_write_failed = FALSE
  /\ c_dialogs = 0
  /\ c_loads = 0
  /\ c_saves = 0
  /\ c_info = 0
  /\ c_warn = 0
  /\ c_raised = FALSE

ClipboardFrame == UNCHANGED <<jvars, svars, qvars>>

\* what a helper did, for the helper named h
Ran(h, reads, writes, failed, dialogs, loads, saves, info, warn, raised) ==
  /\ c_handler' = h
  /\ c_reads' = reads
  /\ c_writes' = writes
  /\ c_write_failed' = failed
  /\ c_dialogs' = dialogs
  /\ c_loads' = loads
  /\ c_saves' = saves
  /\ c_info' = info
  /\ c_warn' = warn
  /\ c_raised' = raised

\* a mutant of copy_text: the text is copied even when the dialog was cancelled
copy_text_IgnoresOk(text, ok, fails) ==
  /\ IF text # ""
       THEN IF fails
              THEN /\ Ran("copy_text", 0, 1, TRUE, 1, 0, 0, 0, 0, TRUE)
                   /\ UNCHANGED <<clip_text, clip_image>>
              ELSE /\ Ran("copy_text", 0, 1, FALSE, 1, 0, 0, 0, 0, FALSE)
                   /\ clip_text' = text
                   /\ clip_image' = NullImage
       ELSE /\ Ran("copy_text", 0, 0, FALSE, 1, 0, 0, 0, 0, FALSE)
            /\ UNCHANGED <<clip_text, clip_image>>
  /\ UNCHANGED saved_image
  /\ ClipboardFrame

\* copy_text(): the dialog returns (text, ok); `fails`: clipboard().setText raises
copy_text(text, ok, fails) ==
  /\ IF ok /\ text # ""
       THEN IF fails
              THEN /\ Ran("copy_text", 0, 1, TRUE, 1, 0, 0, 0, 0, TRUE)
                   /\ UNCHANGED <<clip_text, clip_image>>
              ELSE /\ Ran("copy_text", 0, 1, FALSE, 1, 0, 0, 0, 0, FALSE)
                   /\ clip_text' = text
                   /\ clip_image' = NullImage
       ELSE /\ Ran("copy_text", 0, 0, FALSE, 1, 0, 0, 0, 0, FALSE)
            /\ UNCHANGED <<clip_text, clip_image>>
  /\ UNCHANGED saved_image
  /\ ClipboardFrame

\* paste_text()
paste_text ==
  /\ Ran("paste_text", 1, 0, FALSE, 0, 0, 0, 1, 0, FALSE)
  /\ UNCHANGED <<clip_text, clip_image, saved_image>>
  /\ ClipboardFrame

\* a mutant of cut_text: the text is shown but left on the clipboard
cut_text_KeepsText(fails) ==
  /\ IF clip_text # ""
       THEN IF fails
              THEN /\ Ran("cut_text", 1, 1, TRUE, 0, 0, 0, 0, 0, TRUE)
                   /\ UNCHANGED <<clip_text, clip_image>>
              ELSE /\ Ran("cut_text", 1, 0, FALSE, 0, 0, 0, 1, 0, FALSE)
                   /\ UNCHANGED <<clip_text, clip_image>>
       ELSE /\ Ran("cut_text", 1, 0, FALSE, 0, 0, 0, 0, 1, FALSE)
            /\ UNCHANGED <<clip_text, clip_image>>
  /\ UNCHANGED saved_image
  /\ ClipboardFrame

\* cut_text(); `fails`: clipboard().setText("") raises
cut_text(fails) ==
  /\ IF clip_text # ""
       THEN IF fails
              THEN /\ Ran("cut_text", 1, 1, TRUE, 0, 0, 0, 0, 0, TRUE)
                   /\ UNCHANGED <<clip_text, clip_image>>
              ELSE /\ Ran("cut_text", 1, 1, FALSE, 0, 0, 0, 1, 0, FALSE)
                   /\ clip_text' = ""
                   /\ clip_image' = NullImage
       ELSE /\ Ran("cut_text", 1, 0, FALSE, 0, 0, 0, 0, 1, FALSE)
            /\ UNCHANGED <<clip_text, clip_image>>
  /\ UNCHANGED saved_image
  /\ ClipboardFrame

\* a mutant of copy_image: an image that failed to load is put on the clipboard
copy_image_SetsNull(file_path, fails) ==
  /\ IF file_path # ""
       THEN IF QImage(file_path) # NullImage
              THEN IF fails
                     THEN /\ Ran("copy_image", 0, 1, TRUE, 1, 1, 0, 0, 0, TRUE)
                          /\ UNCHANGED <<clip_text, clip_image>>
                     ELSE /\ Ran("copy_image", 0, 1, FALSE, 1, 1, 0, 1, 0, FALSE)
                          /\ clip_image' = QImage(file_path)
                          /\ clip_text' = ""
              ELSE /\ Ran("copy_image", 0, 1, FALSE, 1, 1, 0, 0, 1, FALSE)
                   /\ clip_image' = QImage(file_path)
                   /\ clip_text' = ""
       ELSE /\ Ran("copy_image", 0, 0, FALSE, 1, 0, 0, 0, 0, FALSE)
            /\ UNCHANGED <<clip_text, clip_image>>
  /\ UNCHANGED saved_image
  /\ ClipboardFrame

\* copy_image(): the file dialog returns file_path; `fails`: setImage raises
copy_image(file_path, fails) ==
  /\ IF file_path # ""
       THEN IF QImage(file_path) # NullImage
              THEN IF fails
                     THEN /\ Ran("copy_image", 0, 1, TRUE, 1, 1, 0, 0, 0, TRUE)
                          /\ UNCHANGED <<clip_text, clip_image>>
                     ELSE /\ Ran("copy_image", 0, 1, FALSE, 1, 1, 0, 1, 0, FALSE)
                          /\ clip_image' = QImage(file_path)
                          /\ clip_text' = ""
              ELSE /\ Ran("copy_image", 0, 0, FALSE, 1, 1, 0, 0, 1, FALSE)
                   /\ UNCHANGED <<clip_text, clip_image>>
       ELSE /\ Ran("copy_image", 0, 0, FALSE, 1, 0, 0, 0, 0, FALSE)
            /\ UNCHANGED <<clip_text, clip_image>>
  /\ UNCHANGED saved_image
  /\ ClipboardFrame

\* paste_image(): the save dialog returns file_path; image.save ends as `saved`:
\* "saved" (returns True), "false" (returns False) or "raised" (an exception)
paste_image(file_path, saved) ==
  /\ IF clip_image # NullImage
       THEN IF file_path # ""
              THEN CASE saved = "raised" ->
                          /\ Ran("paste_image", 1, 0, FALSE, 1, 0, 1, 0, 1, FALSE)
                          /\ UNCHANGED saved_image
                     [] saved = "false" ->
                          /\ Ran("paste_image", 1, 0, FALSE, 1, 0, 1, 1, 0, FALSE)
                          /\ UNCHANGED saved_image
                     [] OTHER ->
                          /\ Ran("paste_image", 1, 0, FALSE, 1, 0, 1, 1, 0, FALSE)
                          /\ saved_image' = clip_image
              ELSE /\ Ran("paste_image", 1, 0, FALSE, 1, 0, 0, 0, 0, FALSE)
                   /\ UNCHANGED saved_image
       ELSE /\ Ran("paste_image", 1, 0, FALSE, 0, 0, 0, 0, 1, FALSE)
            /\ UNCHANGED saved_image
  /\ UNCHANGED <<clip_text, clip_image>>
  /\ ClipboardFrame

\* another program puts text on the clipboard
OtherProgramCopies(text) ==
  /\ clip_text' = text
  /\ clip_image' = NullImage
  /\ UNCHANGED <<saved_image, c_handler, c_reads, c_writes, c_write_failed, c_dialogs,
                 c_loads, c_saves, c_info, c_warn, c_raised>>
  /\ ClipboardFrame

(***************************************************************************)
(* quit_app, called from the tray menu's thread by the Exit item.          *)
(***************************************************************************)
\* start_tray has created the icon and the Qt event loop runs (lines 314-340, 389)
TrayLaunched ==
  /\ icon_running = TRUE
  /\ app_quit = FALSE
  /\ qpc = "idle"
  /\ q_given = FALSE

\* a mutant of QuitApp_L292: the jiggler is never stopped
QuitApp_L292_SkipsStop(given) ==
  /\ cpc = "idle"
  /\ qpc = "idle"
  /\ q_given' = given
  /\ qpc' = "L294"
  /\ UNCHANGED <<cpc, lastCall>>
  /\ UNCHANGED <<ctor_interval, interval, jiggle_event, stop_event, thread,
                 jiggle_on_start, tpc, tx, ti, mouseX, carg, started>>
  /\ UNCHANGED <<svars, cvars, icon_running, app_quit>>

\* lines 292-293: if mouse_jiggler_instance: mouse_jiggler_instance.stop() is
\* called (stop() then runs its lines 84-89 in this thread)
QuitApp_L292(given) ==
  /\ cpc = "idle"
  /\ qpc = "idle"
  /\ q_given' = given
  /\ IF given
       THEN /\ cpc' = "T84"
            /\ lastCall' = "stop"
            /\ qpc' = "L293"
       ELSE /\ qpc' = "L294"
            /\ UNCHANGED <<cpc, lastCall>>
  /\ UNCHANGED <<ctor_interval, interval, jiggle_event, stop_event, thread,
                 jiggle_on_start, tpc, tx, ti, mouseX, carg, started>>
  /\ UNCHANGED <<svars, cvars, icon_running, app_quit>>

\* line 294: icon.stop(), once stop() has returned (or was not called)
Quit_L294 ==
  /\ qpc \in {"L293", "L294"}
  /\ cpc = "idle"
  /\ icon_running' = FALSE
  /\ qpc' = "L295"
  /\ UNCHANGED <<jvars, svars, cvars, app_quit, q_given>>

\* line 295: QApplication.quit()
Quit_L295 ==
  /\ qpc = "L295"
  /\ app_quit' = TRUE
  /\ qpc' = "done"
  /\ UNCHANGED <<jvars, svars, cvars, icon_running, q_given>>

(***************************************************************************)
(* The specifications: the application as main() launches it, then the     *)
(* jiggler, the shortcut manager or the clipboard helpers at work.         *)
(***************************************************************************)
\* the jiggler under every interval and pointer position
JInit ==
  /\ \E iv \in Intervals, x \in Positions : JigglerLaunched(iv, x)
  /\ ShortcutManagerInit("Linux", Actions, {})
  /\ ClipboardLaunched("", NullImage)
  /\ TrayLaunched

JNext ==
  \/ \E jos \in BOOLEAN : CallStart(jos)
  \/ Start_L71 \/ Start_L72 \/ Start_L73 \/ Start_L74 \/ Start_L75
  \/ CallPause \/ Pause_L80
  \/ CallStop \/ Stop_L84 \/ Stop_L85 \/ Stop_L86
  \/ Stop_L88_Joined \/ Stop_L88_Timeout \/ Stop_L89
  \/ \E t \in ThreadIds : ThreadStep(t)

\* the jiggler with its caller and its threads, any scheduling
JSpec == JInit /\ [][JNext]_vars

\* the same under fair scheduling: while some thread can take a step of
\* _jiggle_loop, some thread eventually takes one
JFairSpec == JSpec /\ WF_<<tpc, ti>>(\E t \in ThreadIds : ThreadStep(t))

\* the handler sets a ShortcutManager is constructed with: main()'s, and one that
\* lacks the handlers of paste and paste_image
HandlerSets == {Actions, {"copy", "cut", "copy_image"}}

\* the shortcut manager on either platform; the creation of cut's QShortcut may raise
SInit ==
  /\ JigglerLaunched(MaxInterval, 0)
  /\ \E sys \in {"Linux", "Darwin"}, handlers \in HandlerSets, raising \in {{}, {"cut"}} :
       ShortcutManagerInit(sys, handlers, raising)
  /\ ClipboardLaunched("", NullImage)
  /\ TrayLaunched

SNext ==
  \/ \E a \in ActionNames, text \in DialogTexts, ok \in BOOLEAN :
       SetShortcut_L153(a, text, ok)
  \/ \E exc \in {"none", "QShortcut", "connect"} : SetShortcut_L177(exc)

SSpec == SInit /\ [][SNext]_vars

\* the clipboard helpers
CInit ==
  /\ JigglerLaunched(MaxInterval, 0)
  /\ ShortcutManagerInit("Linux", Actions, {})
  /\ ClipboardLaunched("", NullImage)
  /\ TrayLaunched

CNext ==
  \/ \E text \in Texts, ok \in BOOLEAN, fails \in BOOLEAN : copy_text(text, ok, fails)
  \/ paste_text
  \/ \E fails \in BOOLEAN : cut_text(fails)
  \/ \E file_path \in OpenPaths, fails \in BOOLEAN : copy_image(file_path, fails)
  \/ \E file_path \in SavePaths, saved \in {"saved", "false", "raised"} :
       paste_image(file_path, saved)
  \/ \E text \in Texts : OtherProgramCopies(text)

CSpec == CInit /\ [][CNext]_vars

\* the jiggler as main() constructs it, used from the tray menu until Exit
QInit ==
  /\ JigglerLaunched(MaxInterval, 0)
  /\ ShortcutManagerInit("Linux", Actions, {})
  /\ ClipboardLaunched("", NullImage)
  /\ TrayLaunched

\* the tray menu's thread makes one call at a time, and none once Exit is chosen
QNext ==
  \/ qpc = "idle" /\ \E jos \in BOOLEAN : CallStart(jos)
  \/ qpc = "idle" /\ CallPause
  \/ qpc = "idle" /\ CallStop
  \/ Start_L71 \/ Start_L72 \/ Start_L73 \/ Start_L74 \/ Start_L75
  \/ Pause_L80
  \/ Stop_L84 \/ Stop_L85 \/ Stop_L86
  \/ Stop_L88_Joined \/ Stop_L88_Timeout \/ Stop_L89
  \/ \E t \in ThreadIds : ThreadStep(t)
  \/ \E given \in BOOLEAN : QuitApp_L292(given)
  \/ Quit_L294
  \/ Quit_L295

QSpec == QInit /\ [][QNext]_vars

(***************************************************************************)
(* Properties of the MouseJiggler.                                         *)
(***************************************************************************)
\* the last call was start() / pause() / stop() and it has returned
StartInEffect == lastCall = "start" /\ cpc = "idle"
PauseInEffect == lastCall = "pause" /\ cpc = "idle"
StopInEffect == lastCall = "stop" /\ cpc = "idle"

\* this step is a pyautogui.moveTo of thread t that moved the pointer
MoveToStep(t) ==
  \/ tpc[t] = "L39" /\ tpc'[t] = "L40"
  \/ tpc[t] = "L40" /\ tpc'[t] = "L57" /\ mouseX' = tx[t]

\* this step changes neither the thread reference, the stop flag, the
\* _jiggle_on_start field nor any thread (none created, none ended, none moved on)
LifecycleFrame ==
  /\ thread' = thread
  /\ stop_event' = stop_event
  /\ jiggle_on_start' = jiggle_on_start
  /\ tpc' = tpc

\* C2: at most one thread running _jiggle_loop is alive at any time, for every
\* sequence of start(), pause() and stop() calls, a timed-out join included.
C2_OneJiggleThread == Cardinality(AliveThreads) <= 1

\* C3: after stop() has returned (and until the next call) the jiggle flag is
\* clear, the stop flag is set and the thread reference is None.
C3_StopPostcondition ==
  StopInEffect => (~jiggle_event /\ stop_event /\ thread = NoThread)

C5_PauseHolds ==
  [][PauseInEffect => (~jiggle_event' /\ \A t \in ThreadIds : ~MoveToStep(t))]_vars

\* C6: pause(), and start() called while the jiggle thread is alive, change only
\* the jiggle flag (pause clears it, start sets it); the thread reference, the
\* stop flag and the threads are unchanged, and start() returns at line 72.
C6_PauseStartFrame ==
  [][ /\ (cpc = "P80" /\ cpc' # "P80") =>
           (cpc' = "idle" /\ ~jiggle_event' /\ LifecycleFrame)
      /\ (cpc = "S71" /\ cpc' # "S71") =>
           (cpc' = "S72" /\ jiggle_event' /\ LifecycleFrame)
      /\ (cpc = "S72" /\ cpc' # "S72" /\ thread # NoThread /\ is_alive(thread)) =>
           (cpc' = "idle" /\ jiggle_event' /\ LifecycleFrame)
    ]_vars

\* C6 witness: start() was called after pause() with the thread alive, line 71 has
\* set the flag again and the call is about to return without creating a thread.
C6_Witness ==
  /\ cpc = "S72"
  /\ thread # NoThread
  /\ tpc[thread] \in {"L57", "L60"}
  /\ jiggle_event
  /\ ~stop_event

\* C7: when start(jiggle_on_start=False) returns after creating the thread, the
\* jiggle flag is not set (the thread starts paused).
C7_StartsPaused ==
  [][(cpc = "S75" /\ cpc' = "idle" /\ ~carg) => ~jiggle_event']_vars

\* in every pass made while start() is in effect the loop calls _move_mouse, and
\* the interval wait ends only after `interval` one-second sleeps
PassJiggles ==
  \A t \in ThreadIds :
    /\ (StartInEffect /\ tpc[t] = "L52" /\ tpc'[t] # "L52") => tpc'[t] = "L38"
    /\ (StartInEffect /\ tpc[t] = "L57" /\ tpc'[t] = "L51") => interval = 0
    /\ (StartInEffect /\ tpc[t] = "L60" /\ tpc'[t] = "L51") => ti[t] + 1 = interval

\* a thread completes a movement: one pixel away (line 39) and back (line 40)
JiggleDone ==
  \E t \in ThreadIds :
    tpc[t] = "L40" /\ tpc'[t] = "L57" /\ mouseX' = tx[t]

\* a library call of _move_mouse raises and the handler of line 41 takes over
JiggleRaised ==
  \E t \in ThreadIds : tpc[t] \in {"L38", "L39", "L40"} /\ tpc'[t] = "L43"

C9_NewJigglerIdle ==
  /\ lastCall = "none" =>
       (~jiggle_event /\ ~stop_event /\ thread = NoThread /\ cpc = "idle")
  /\ ~started =>
       (interval = ctor_interval /\ AliveThreads = {} /\ thread = NoThread
        /\ ~jiggle_event)

\* C9 witness: pause() or stop() was called on a jiggler that was never started,
\* constructed with the largest interval.
C9_Witness ==
  /\ ~started
  /\ lastCall # "none"
  /\ cpc = "idle"
  /\ interval = MaxInterval

\* a library call of _move_mouse made by thread t raises
Raises(t) ==
  \/ Move_L38(t) /\ tpc'[t] # "L39"
  \/ Move_L39(t) /\ tpc'[t] # "L40"
  \/ Move_L40(t) /\ tpc'[t] # "L57"

\* C18: an exception raised by position() or moveTo() inside a jiggle is caught
\* by the handler of line 41: the thread stays alive, the jiggle flag and the
\* stop flag are unchanged by the raise and by the handler, and from the handler
\* the thread goes to the interval wait of the loop, which leads to the next
\* test of the loop condition.
C18_LibraryFailureCaught ==
  [][\A t \in ThreadIds :
       /\ Raises(t) =>
            /\ tpc'[t] = "L43"
            /\ UNCHANGED <<jiggle_event, stop_event, thread>>
       /\ Move_L43(t) =>
            /\ tpc'[t] = "L57"
            /\ UNCHANGED <<jiggle_event, stop_event, thread, mouseX>>
       /\ (tpc[t] = "L57" /\ tpc'[t] # "L57") => tpc'[t] \in {"L60", "L51"}
       /\ (tpc[t] = "L60" /\ tpc'[t] # "L60") => tpc'[t] = "L51"]_vars

\* C18 witness: while start() is in effect a library call of the jiggle thread
\* has raised and the handler of line 41 has caught it.
C18_Witness ==
  /\ StartInEffect
  /\ thread # NoThread
  /\ tpc[thread] = "L43"
  /\ jiggle_event
  /\ ~stop_event

\* with the stop flag set, thread t starts no new pass of the loop and starts
\* no 1-second sleep: the sleep and the _move_mouse call in progress are the last
StopBounds ==
  stop_event =>
    \A t \in ThreadIds :
      /\ ~(tpc[t] = "L51" /\ tpc'[t] = "L52")
      /\ ~(tpc[t] = "L57" /\ tpc'[t] = "L60")
      /\ ~(tpc[t] = "L60" /\ tpc'[t] = "L60" /\ ti'[t] # ti[t])
      /\ (tpc[t] # "L38" /\ tpc'[t] = "L38") => tpc[t] = "L52"

QuitStopReturned == StopInEffect /\ stop_event /\ thread = NoThread

\* C25: quit_app given a jiggler calls its stop() first: stop() clears the
\* jiggle flag, sets the stop flag, joins the thread if it is alive (the join
\* returns or times out) and returns before the icon is stopped; the icon is
\* stopped before the application is told to quit; given no jiggler, quit_app
\* goes straight to stopping the icon and then quits.
C25_QuitOrder ==
  /\ [](/\ app_quit => ~icon_running
        /\ ~icon_running <=> qpc \in {"L295", "done"}
        /\ app_quit <=> qpc = "done"
        /\ qpc = "L293" => (q_given /\ lastCall = "stop")
        /\ (q_given /\ ~icon_running) => QuitStopReturned)
  /\ [][/\ Quit_L294 => (~app_quit' /\ (q_given => QuitStopReturned))
        /\ Quit_L295 => (~icon_running /\ app_quit')
        /\ QuitApp_L292(TRUE) => (cpc' = "T84" /\ icon_running' /\ ~app_quit')
        /\ QuitApp_L292(FALSE) => (qpc' = "L294" /\ UNCHANGED jvars)
        /\ (qpc = "L293" /\ Stop_L84) => ~jiggle_event'
        /\ (qpc = "L293" /\ Stop_L85) => stop_event'
        /\ (qpc = "L293" /\ cpc = "T88" /\ cpc' # "T88") =>
             (~is_alive(thread) \/ Blocked(thread))]_vars

\* C25 witness: Exit was chosen while the jiggler was running: its thread has
\* ended, the icon is stopped and the application has been told to quit.
C25_Witness ==
  /\ qpc = "done"
  /\ q_given
  /\ started
  /\ app_quit
  /\ ~icon_running
  /\ stop_event
  /\ mouseX # 0

(***************************************************************************)
(* Properties of the ShortcutManager and of the clipboard helpers.         *)
(***************************************************************************)
\* C1: every action has at most one live binding (a created QShortcut with a
\* non-empty key and a connected handler), after construction and after every
\* set_shortcut; when set_shortcut goes on to create the new binding (line 177)
\* the replaced one is already disconnected and has an empty key.
C1_AtMostOneBinding ==
  /\ \A a \in Actions : Cardinality(LiveBindings(a)) <= 1
  /\ spc = "L177" => LiveBindings(s_action) = {}

\* C1 witness: an action's binding has been replaced: its live QShortcut was
\* created by set_shortcut and an older QShortcut has been deactivated.
C1_Witness ==
  /\ spc = "idle"
  /\ \E a \in Actions : \E i \in LiveBindings(a) :
       /\ i > Len(DefaultOrder)
       /\ \E j \in 1 .. (i - 1) : isEmpty(qshortcuts[j].key)

\* C10: when the clipboard mutation of cut_text or copy_image fails on every
\* attempt, it is attempted exactly 3 times, then exactly one warning dialog is
\* shown and no information dialog.
C10_ThreeAttempts ==
  (c_handler \in {"cut_text", "copy_image"} /\ c_write_failed) =>
    (c_writes = 3 /\ c_warn = 1 /\ c_info = 0)

\* where the creation of a QShortcut by set_shortcut may raise (lines 191-192)
Excs == {"none", "QShortcut", "connect"}

\* the set_shortcut in progress ends (lines 177-200), whatever the creation does
SetShortcutEnds == \E exc \in Excs : SetShortcut_L177(exc)

\* C11: when the user confirms set_shortcut with a non-empty string that is not
\* a valid key sequence, one warning is shown and nothing else changes: the
\* QShortcut objects (the action's binding among them), the binding table and
\* the stored user sequences are what they were when set_shortcut was called.
C11_InvalidKeepsBinding ==
  [][(SetShortcutEnds /\ s_text # "" /\ isEmpty(QKeySequence(s_text))) =>
       /\ dlg_warn' = 1
       /\ dlg_info' = 0
       /\ qshortcuts' = old_qshortcuts
       /\ shortcut_objects' = old_shortcut_objects
       /\ user_shortcuts' = old_user_shortcuts]_vars

\* C12: when the user confirms set_shortcut with a valid key sequence for a known
\* action and the creation does not raise, the action's previous QShortcut is
\* deactivated and no longer in the binding table, exactly one QShortcut is
\* created, with the parsed sequence and connected to the action's handler, it is
\* the action's entry of the binding table, the stored user sequence of the
\* action is the entered string, every other action keeps its binding and its
\* stored sequence, and exactly one information dialog and no warning is shown.
C12_ValidReplaces ==
  [][(SetShortcut_L177("none") /\ ~isEmpty(QKeySequence(s_text))) =>
       LET n == Len(old_qshortcuts)
       IN  /\ s_action \in action_handlers
           /\ Len(qshortcuts') = n + 1
           /\ qshortcuts'[n + 1] = [key |-> QKeySequence(s_text), handler |-> s_action]
           /\ \A i \in 1 .. n :
                qshortcuts'[i] =
                  IF s_action \in DOMAIN old_shortcut_objects
                     /\ i = old_shortcut_objects[s_action]
                    THEN [key |-> EmptyKey, handler |-> NoHandler]
                    ELSE old_qshortcuts[i]
           /\ DOMAIN shortcut_objects' = DOMAIN old_shortcut_objects \cup {s_action}
           /\ \A a \in DOMAIN shortcut_objects' :
                shortcut_objects'[a] =
                  IF a = s_action THEN n + 1 ELSE old_shortcut_objects[a]
           /\ {i \in 1 .. Len(qshortcuts') :
                 qshortcuts'[i].key # EmptyKey /\ qshortcuts'[i].handler = s_action}
                = {n + 1}
           /\ DOMAIN user_shortcuts' = DOMAIN old_user_shortcuts \cup {s_action}
           /\ \A a \in DOMAIN user_shortcuts' :
                user_shortcuts'[a] =
                  IF a = s_action THEN s_text ELSE old_user_shortcuts[a]
           /\ dlg_input' = 1
           /\ dlg_info' = 1
           /\ dlg_warn' = 0]_vars

\* C12 witness: set_shortcut has replaced a default binding by one whose stored
\* string differs from the portable form of its key sequence.
C12_Witness ==
  /\ spc = "idle"
  /\ dlg_info = 1
  /\ \E a \in DOMAIN shortcut_objects :
       /\ shortcut_objects[a] > Len(DefaultOrder)
       /\ user_shortcuts[a] = "alt+f1"
       /\ qshortcuts[shortcut_objects[a]] = [key |-> "Alt+F1", handler |-> a]
       /\ \E j \in 1 .. Len(DefaultOrder) :
            j <= Len(qshortcuts) /\ qshortcuts[j].handler = NoHandler

\* C13: when the user confirms set_shortcut with an empty string, the action's
\* QShortcut (if it had one) is deactivated, the action has no entry in the
\* binding table and none in the stored user sequences, every other action keeps
\* its entries, no QShortcut is created, and exactly one information dialog and
\* no warning is shown.
C13_EmptyClears ==
  [][(SetShortcutEnds /\ s_text = "") =>
       /\ Len(qshortcuts') = Len(old_qshortcuts)
       /\ \A i \in 1 .. Len(old_qshortcuts) :
            qshortcuts'[i] =
              IF s_action \in DOMAIN old_shortcut_objects
                 /\ i = old_shortcut_objects[s_action]
                THEN [key |-> EmptyKey, handler |-> NoHandler]
                ELSE old_qshortcuts[i]
       /\ \A i \in 1 .. Len(qshortcuts') :
            qshortcuts'[i].key = EmptyKey \/ qshortcuts'[i].handler # s_action
       /\ shortcut_objects' = DictDel(old_shortcut_objects, s_action)
       /\ s_action \notin DOMAIN shortcut_objects'
       /\ DOMAIN user_shortcuts' = DOMAIN old_user_shortcuts \ {s_action}
       /\ \A a \in DOMAIN user_shortcuts' : user_shortcuts'[a] = old_user_shortcuts[a]
       /\ dlg_input' = 1
       /\ dlg_info' = 1
       /\ dlg_warn' = 0]_vars

\* C13 witness: a default binding has been cleared: the action has no entry in
\* either map, its QShortcut is deactivated and no QShortcut has been created.
C13_Witness ==
  /\ spc = "idle"
  /\ dlg_info = 1
  /\ Len(qshortcuts) = Cardinality(action_handlers \cap DOMAIN default_shortcuts(platform_system))
  /\ init_raised = {}
  /\ \E a \in action_handlers \cap DOMAIN default_shortcuts(platform_system) :
       /\ a \notin DOMAIN shortcut_objects
       /\ a \notin DOMAIN user_shortcuts
       /\ \E i \in 1 .. Len(qshortcuts) : qshortcuts[i].key = EmptyKey

\* the ShortcutManager is as __init__ left it: set_shortcut has not been called
Constructed == spc = "idle" /\ dlg_input = 0 /\ dlg_info = 0 /\ dlg_warn = 0

\* the actions of the default map that have a handler
DefaultActions == DOMAIN default_shortcuts(platform_system) \cap action_handlers

\* C14: a constructed ShortcutManager (no QShortcut creation having raised)
\* holds exactly one QShortcut for each action of the default map that has a
\* handler, with the action's default key sequence and connected to the action's
\* handler, and it is the action's entry of the binding table; the other actions
\* have none; when every default action has a handler the number of QShortcut
\* objects created is the size of the default map.
C14_ConstructionBindsDefaults ==
  (Constructed /\ init_raised = {}) =>
    /\ DOMAIN shortcut_objects = DefaultActions
    /\ \A a \in DefaultActions :
         /\ Cardinality({i \in 1 .. Len(qshortcuts) : qshortcuts[i].handler = a}) = 1
         /\ qshortcuts[shortcut_objects[a]] =
              [key |-> QKeySequence(default_shortcuts(platform_system)[a]), handler |-> a]
         /\ ~isEmpty(qshortcuts[shortcut_objects[a]].key)
         /\ user_shortcuts[a] = default_shortcuts(platform_system)[a]
    /\ \A a \in ActionNames \ DefaultActions :
         \A i \in 1 .. Len(qshortcuts) : qshortcuts[i].handler # a
    /\ Len(qshortcuts) = Cardinality(DefaultActions)
    /\ (DOMAIN default_shortcuts(platform_system) \subseteq action_handlers) =>
         Len(qshortcuts) = Cardinality(DOMAIN default_shortcuts(platform_system))

\* C14 witness: a ShortcutManager constructed on macOS with all five handlers
\* holds the three Meta bindings.
C14_Witness ==
  /\ Constructed
  /\ init_raised = {}
  /\ platform_system = "Darwin"
  /\ action_handlers = Actions
  /\ Len(qshortcuts) = 3
  /\ qshortcuts[shortcut_objects["paste"]] = [key |-> "Meta+V", handler |-> "paste"]

\* C15: when the user cancels the input dialog of set_shortcut for a known
\* action, the stored user sequences, the binding table and the QShortcut
\* objects are unchanged, and no information or warning dialog is shown.
C15_CancelIsNoOp ==
  [][\A a \in action_handlers, text \in DialogTexts :
       SetShortcut_L153(a, text, FALSE) =>
         /\ UNCHANGED <<user_shortcuts, shortcut_objects, qshortcuts>>
         /\ spc' = "idle"
         /\ dlg_input' = 1
         /\ dlg_info' = 0
         /\ dlg_warn' = 0]_vars

\* C15 witness: the input dialog of a set_shortcut has been cancelled while a
\* binding made by an earlier set_shortcut is in place.
C15_Witness ==
  /\ spc = "idle"
  /\ dlg_input = 1
  /\ dlg_info = 0
  /\ dlg_warn = 0
  /\ \E a \in DOMAIN shortcut_objects : shortcut_objects[a] > Len(DefaultOrder)

\* C16: set_shortcut called with an action name that has no handler shows one
\* warning dialog and no other dialog, does not open the input dialog, and
\* leaves the stored user sequences, the binding table and the QShortcut objects
\* unchanged.
C16_UnknownActionWarns ==
  [][\A a \in ActionNames \ action_handlers, text \in DialogTexts, ok \in BOOLEAN :
       SetShortcut_L153(a, text, ok) =>
         /\ UNCHANGED <<user_shortcuts, shortcut_objects, qshortcuts>>
         /\ spc' = "idle"
         /\ dlg_warn' = 1
         /\ dlg_input' = 0
         /\ dlg_info' = 0]_vars

\* C16 witness: set_shortcut has been called with a name that has no handler,
\* by a manager in which paste has a stored sequence but no handler.
C16_Witness ==
  /\ spc = "idle"
  /\ dlg_warn = 1
  /\ dlg_input = 0
  /\ "paste" \notin action_handlers
  /\ "paste" \in DOMAIN user_shortcuts

\* the stored-sequence maps _initialize_shortcuts is tried on: each default
\* action with its default, an empty string or a string that names no key
UserMaps ==
  [DOMAIN default_shortcuts(platform_system) ->
     {"", "Not A Key"} \cup
     {default_shortcuts(platform_system)[a] : a \in DOMAIN default_shortcuts(platform_system)}]

DialogCancelled ==
  \/ \E text \in Texts, fails \in BOOLEAN : copy_text(text, FALSE, fails)
  \/ \E fails \in BOOLEAN : copy_text("", TRUE, fails)
  \/ \E fails \in BOOLEAN : copy_image("", fails)
  \/ clip_image # NullImage /\ \E saved \in {"saved", "false", "raised"} :
       paste_image("", saved)

\* C19: when the user cancels the dialog of copy_text (or confirms it with empty
\* text), of copy_image or of paste_image, the clipboard is not modified (no
\* mutation call is made), no image is loaded or saved, and no information or
\* warning dialog is shown.
C19_ClipboardCancelIsNoOp ==
  [][DialogCancelled =>
       /\ UNCHANGED <<clip_text, clip_image, saved_image>>
       /\ c_dialogs' = 1
       /\ c_writes' = 0
       /\ c_loads' = 0
       /\ c_saves' = 0
       /\ c_info' = 0
       /\ c_warn' = 0
       /\ ~c_raised']_vars

\* C19 witness: the save dialog of paste_image has been cancelled while the
\* clipboard holds an image: nothing was saved.
C19_Witness ==
  /\ c_handler = "paste_image"
  /\ clip_image # NullImage
  /\ c_dialogs = 1
  /\ c_saves = 0
  /\ saved_image = NullImage

\* C20: cut_text makes a clipboard mutation call exactly when the clipboard
\* holds non-empty text. With non-empty text (and setText not raising) the text
\* is read once, the clipboard is emptied by one setText call, one information
\* dialog and no warning is shown; with empty text the clipboard is read once
\* and left as it is, one warning dialog and no information dialog is shown.
C20_CutText ==
  [][/\ \A fails \in BOOLEAN : cut_text(fails) => ((c_writes' > 0) <=> (clip_text # ""))
     /\ (cut_text(FALSE) /\ clip_text # "") =>
          /\ c_reads' = 1
          /\ c_writes' = 1
          /\ clip_text' = ""
          /\ c_info' = 1
          /\ c_warn' = 0
     /\ ((\E fails \in BOOLEAN : cut_text(fails)) /\ clip_text = "") =>
          /\ c_reads' = 1
          /\ c_writes' = 0
          /\ UNCHANGED <<clip_text, clip_image>>
          /\ c_warn' = 1
          /\ c_info' = 0]_vars

\* C20 witness: cut_text has emptied a clipboard that held text.
C20_Witness ==
  /\ c_handler = "cut_text"
  /\ c_reads = 1
  /\ c_writes = 1
  /\ ~c_write_failed
  /\ c_info = 1
  /\ clip_text = ""

\* C21: paste_text never modifies the clipboard and reads its text once; with
\* non-empty clipboard text it shows one information dialog and no warning, with
\* empty clipboard text it shows one warning dialog and no information dialog.
C21_PasteText ==
  [][paste_text =>
       /\ UNCHANGED <<clip_text, clip_image>>
       /\ c_reads' = 1
       /\ c_writes' = 0
       /\ IF clip_text # ""
            THEN c_info' = 1 /\ c_warn' = 0
            ELSE c_warn' = 1 /\ c_info' = 0]_vars

\* how image.save(file_path) may end
SaveOutcomes == {"saved", "false", "raised"}

\* C22: when the clipboard holds an image, the user chooses a path and the save
\* call returns false, the save is attempted once, one warning dialog and no
\* information dialog is shown; paste_image shows an information dialog only
\* when the save succeeded.
C22_FailedSaveReported ==
  [][\A file_path \in SavePaths :
       /\ (clip_image # NullImage /\ file_path # "" /\ paste_image(file_path, "false")) =>
            /\ c_saves' = 1
            /\ c_warn' = 1
            /\ c_info' = 0
       /\ \A saved \in SaveOutcomes \ {"saved"} :
            paste_image(file_path, saved) => c_info' = 0]_vars

\* C23: copy_image with a chosen file that does not load as an image shows one
\* warning and no information dialog, and makes no clipboard mutation call;
\* paste_image with no image on the clipboard shows one warning and no
\* information dialog, opens no save dialog and saves nothing; neither changes
\* the clipboard or a saved file.
C23_NoUsableImage ==
  [][/\ \A file_path \in OpenPaths \ {""}, fails \in BOOLEAN :
          (QImage(file_path) = NullImage /\ copy_image(file_path, fails)) =>
            /\ c_loads' = 1
            /\ c_writes' = 0
            /\ c_warn' = 1
            /\ c_info' = 0
            /\ ~c_raised'
            /\ UNCHANGED <<clip_text, clip_image, saved_image>>
     /\ \A file_path \in SavePaths, saved \in SaveOutcomes :
          (clip_image = NullImage /\ paste_image(file_path, saved)) =>
            /\ c_reads' = 1
            /\ c_dialogs' = 0
            /\ c_saves' = 0
            /\ c_warn' = 1
            /\ c_info' = 0
            /\ UNCHANGED <<clip_text, clip_image, saved_image>>]_vars

\* C23 witness: copy_image was given a file that is no image while the
\* clipboard held text: the text is still there.
C23_Witness ==
  /\ c_handler = "copy_image"
  /\ c_loads = 1
  /\ c_warn = 1
  /\ c_writes = 0
  /\ clip_text = "abc"

\* C26: in a ShortcutManager constructed with a handler for every default
\* action (no QShortcut creation having raised in __init__), at every point of
\* every sequence of set_shortcut calls an action has an entry in
\* shortcut_objects exactly when it has one in user_shortcuts, and that entry is
\* a QShortcut connected to the action's handler whose key sequence is the one
\* the stored string parses to.
C26_MapsConsistent ==
  (DOMAIN default_shortcuts(platform_system) \subseteq action_handlers
   /\ init_raised = {}) =>
    /\ DOMAIN shortcut_objects = DOMAIN user_shortcuts
    /\ \A a \in DOMAIN shortcut_objects :
         /\ shortcut_objects[a] \in 1 .. Len(qshortcuts)
         /\ qshortcuts[shortcut_objects[a]] =
              [key |-> QKeySequence(user_shortcuts[a]), handler |-> a]
         /\ qshortcuts[shortcut_objects[a]].key # EmptyKey

\* C26 witness: with all handlers, one action has been cleared and another has
\* been given a sequence typed in lower case.
C26_Witness ==
  /\ spc = "idle"
  /\ action_handlers = Actions
  /\ init_raised = {}
  /\ \E a \in DOMAIN default_shortcuts(platform_system) :
       a \notin DOMAIN shortcut_objects /\ a \notin DOMAIN user_shortcuts
  /\ \E b \in DOMAIN shortcut_objects :
       user_shortcuts[b] = "alt+f1" /\ qshortcuts[shortcut_objects[b]].key = "Alt+F1"

====
